---- MODULE Spec2Model ----
(***************************************************************************)
(* Model of the address-resolution pipeline of dc-bar-mapper               *)
(* (src/backend/process_addresses.py).                                     *)
(*                                                                         *)
(* Text is a sequence of one-character strings.  Coordinates are in tenths *)
(* of a degree (38.5 is 385), so the bounding box keeps its four edges.    *)
(* The two Google Maps capabilities are the environment: each call draws   *)
(* its answer from a small set that covers every branch of the resolvers.  *)
(* The query text (with or without the ", Washington DC" suffix) only      *)
(* influences what the capability answers, which is drawn freely anyway.   *)
(***************************************************************************)
EXTENDS Integers, Sequences, FiniteSets, TLC

\* ---------------------------------------------------------------- bounds
MaxLines == 2
MaxPriorId == 2
MaxOps == 4

\* ------------------------------------------------------------- constants
DC_LAT_MIN == 385
DC_LAT_MAX == 395
DC_LNG_MIN == 0 - 775
DC_LNG_MAX == 0 - 765

\* A file is absent, or exists with its rows (lines).
Absent == [exists |-> FALSE, rows |-> <<>>]
File(rows) == [exists |-> TRUE, rows |-> rows]

\* ------------------------------------------------------------------ text
Whitespace == {" "}

RECURSIVE lstrip(_)
lstrip(s) ==
    IF s # <<>> /\ Head(s) \in Whitespace THEN lstrip(Tail(s)) ELSE s

RECURSIVE rstrip(_)
rstrip(s) ==
    IF s # <<>> /\ s[Len(s)] \in Whitespace
    THEN rstrip(SubSeq(s, 1, Len(s) - 1))
    ELSE s

strip(s) == rstrip(lstrip(s))

\* str.split(',')[0]: the text before the first comma, the whole text
\* when it has none.
RECURSIVE split_first(_)
split_first(s) ==
    IF s = <<>> \/ Head(s) = "," THEN <<>>
    ELSE <<Head(s)>> \o split_first(Tail(s))

startswith_hash(s) == s # <<>> /\ Head(s) = "#"

\* The lines an input file is made of: a blank line, a comment, a comment
\* behind leading blanks, and two usable lines.
InputLines ==
    { <<" ">>,
      <<" ", "#", "x">>,
      <<"a", " ", ",", "b">>,
      <<" ", "c", " ">> }

\* Lines 211-217: strip every line, keep the non-empty non-comment ones.
RECURSIVE read_raw_addresses(_)
read_raw_addresses(lines) ==
    IF lines = <<>> THEN <<>>
    ELSE LET line == strip(Head(lines))
             rest == read_raw_addresses(Tail(lines))
         IN IF line # <<>> /\ ~startswith_hash(line)
            THEN <<line>> \o rest
            ELSE rest

\* ------------------------------------------------------- csv cell formats
Digits == <<"0", "1", "2", "3", "4", "5", "6", "7", "8", "9">>

RECURSIVE format_nat(_)
format_nat(n) ==
    IF n < 10 THEN <<Digits[n + 1]>>
    ELSE format_nat(n \div 10) \o <<Digits[(n % 10) + 1]>>

\* str(int): decimal digits, a leading "-" for a negative number.
format_int(n) == IF n < 0 THEN <<"-">> \o format_nat(0 - n) ELSE format_nat(n)

is_digit(c) == \E d \in 1..10 : Digits[d] = c
digit_value(c) == (CHOOSE d \in 1..10 : Digits[d] = c) - 1

is_nat_text(s) == s # <<>> /\ \A k \in 1..Len(s) : is_digit(s[k])

RECURSIVE parse_nat(_)
parse_nat(s) ==
    IF Len(s) = 1 THEN digit_value(s[1])
    ELSE 10 * parse_nat(SubSeq(s, 1, Len(s) - 1)) + digit_value(s[Len(s)])

\* int(text) succeeds on an optionally signed run of digits.
is_int_text(s) ==
    IF s # <<>> /\ Head(s) = "-" THEN is_nat_text(Tail(s)) ELSE is_nat_text(s)

parse_int(s) ==
    IF Head(s) = "-" THEN 0 - parse_nat(Tail(s)) ELSE parse_nat(s)

\* str(bool) as csv.DictWriter writes it.
format_bool(b) == IF b THEN "True" ELSE "False"

\* str.lower() on the texts a visible cell can hold.
lower(t) ==
    CASE t = "True" -> "true"
      [] t = "False" -> "false"
      [] t = "TRUE" -> "true"
      [] OTHER -> t

\* Line 180: row['visible'].lower() == 'true'
parse_visible(t) == lower(t) = "true"

\* Lines 191-195: one address dict written as a csv row.
format_row(a) ==
    [id |-> format_int(a.id), name |-> a.name, address |-> a.address,
     lat |-> format_int(a.lat), lng |-> format_int(a.lng),
     visible |-> format_bool(a.visible)]

row_readable(r) ==
    is_int_text(r.id) /\ is_int_text(r.lat) /\ is_int_text(r.lng)

\* Lines 174-181: one csv row read back as an address dict.
parse_row(r) ==
    [id |-> parse_int(r.id), name |-> r.name, address |-> r.address,
     lat |-> parse_int(r.lat), lng |-> parse_int(r.lng),
     visible |-> parse_visible(r.visible)]

write_addresses_csv(addresses) ==
    [k \in 1..Len(addresses) |-> format_row(addresses[k])]

Max(a, b) == IF a >= b THEN a ELSE b

\* Lines 173-184: rows are read in order; the first row that fails to
\* convert raises, the exception is caught, and what was read so far stays.
RECURSIVE read_rows(_, _, _)
read_rows(rows, addresses, max_id) ==
    IF rows = <<>> \/ ~row_readable(Head(rows))
    THEN <<addresses, max_id>>
    ELSE LET a == parse_row(Head(rows))
         IN read_rows(Tail(rows), Append(addresses, a), Max(max_id, a.id))

read_existing_addresses(file) ==
    IF ~file.exists THEN <<<<>>, 0>> ELSE read_rows(file.rows, <<>>, 0)

\* ------------------------------------------------------------- resolvers
\* validate_dc_coordinates with the box open at its four edges.
validate_dc_coordinates_Strict(lat, lng) ==
    (DC_LAT_MIN < lat /\ lat < DC_LAT_MAX)
        /\ (DC_LNG_MIN < lng /\ lng < DC_LNG_MAX)

\* Lines 34-39.
validate_dc_coordinates(lat, lng) ==
    (DC_LAT_MIN <= lat /\ lat <= DC_LAT_MAX)
        /\ (DC_LNG_MIN <= lng /\ lng <= DC_LNG_MAX)

InBox == [lat |-> 389, lng |-> 0 - 770]
OutOfBox == [lat |-> 400, lng |-> 0 - 770]
Locations == {InBox, OutOfBox}

VenueName == <<"V">>
VenueAddress == <<"v", "a">>
GeocodeAddress == <<"g", "a">>

\* What the venue-search capability does for one entry: places() raises,
\* answers without a usable result, or answers OK with a result; place()
\* then raises, answers a status other than OK, or answers OK with details.
PlaceAnswers ==
    { [places |-> "raise", place |-> "none", name |-> VenueName,
       formatted_address |-> VenueAddress, loc |-> InBox],
      [places |-> "ZERO_RESULTS", place |-> "none", name |-> VenueName,
       formatted_address |-> VenueAddress, loc |-> InBox],
      [places |-> "OK", place |-> "raise", name |-> VenueName,
       formatted_address |-> VenueAddress, loc |-> InBox],
      [places |-> "OK", place |-> "NOT_FOUND", name |-> VenueName,
       formatted_address |-> VenueAddress, loc |-> InBox] }
    \cup { [places |-> "OK", place |-> "OK", name |-> VenueName,
            formatted_address |-> VenueAddress, loc |-> l] :
                l \in Locations }

\* What the geocode capability does: raises, answers an empty list, or
\* answers a list whose first result is at loc.
GeocodeAnswers ==
    { [geocode |-> "raise", formatted_address |-> GeocodeAddress,
       loc |-> InBox],
      [geocode |-> "empty", formatted_address |-> GeocodeAddress,
       loc |-> InBox] }
    \cup { [geocode |-> "results", formatted_address |-> GeocodeAddress,
            loc |-> l] : l \in Locations }

\* A resolver returns a dict, returns None, or lets an exception escape.
None == [kind |-> "None"]
Raised == [kind |-> "exception"]

\* find_place_by_name without the bounds check of lines 74-77.
find_place_by_name_NoBounds(ans, raw_address) ==
    IF ans.places = "raise" THEN None
    ELSE IF ans.places # "OK" THEN None
    ELSE IF ans.place = "raise" THEN None
    ELSE IF ans.place # "OK" THEN None
    ELSE [name |-> ans.name, address |-> ans.formatted_address,
          lat |-> ans.loc.lat, lng |-> ans.loc.lng, visible |-> TRUE]

\* find_place_by_name naming the record after the input text, as the
\* fallback does, instead of after the place details (line 71).
find_place_by_name_RawName(ans, raw_address) ==
    IF ans.places = "raise" THEN None
    ELSE IF ans.places # "OK" THEN None
    ELSE IF ans.place = "raise" THEN None
    ELSE IF ans.place # "OK" THEN None
    ELSE IF ~validate_dc_coordinates(ans.loc.lat, ans.loc.lng) THEN None
    ELSE [name |-> strip(split_first(raw_address)),
          address |-> ans.formatted_address,
          lat |-> ans.loc.lat, lng |-> ans.loc.lng, visible |-> TRUE]

\* Lines 47-93: every exception is caught and turned into None; a venue
\* outside the box is dropped.
find_place_by_name(ans, raw_address) ==
    IF ans.places = "raise" THEN None
    ELSE IF ans.places # "OK" THEN None
    ELSE IF ans.place = "raise" THEN None
    ELSE IF ans.place # "OK" THEN None
    ELSE IF ~validate_dc_coordinates(ans.loc.lat, ans.loc.lng) THEN None
    ELSE [name |-> ans.name, address |-> ans.formatted_address,
          lat |-> ans.loc.lat, lng |-> ans.loc.lng, visible |-> TRUE]

\* geocode_address_fallback without the handler of lines 135-137.
geocode_address_fallback_NoCatch(ans, raw_address) ==
    IF ans.geocode = "raise" THEN Raised
    ELSE IF ans.geocode = "empty" THEN None
    ELSE [name |-> strip(split_first(raw_address)),
          address |-> ans.formatted_address,
          lat |-> ans.loc.lat, lng |-> ans.loc.lng, visible |-> TRUE]

\* geocode_address_fallback dropping a result outside the box, as the
\* venue search does.
geocode_address_fallback_Strict(ans, raw_address) ==
    IF ans.geocode = "raise" THEN None
    ELSE IF ans.geocode = "empty" THEN None
    ELSE IF ~validate_dc_coordinates(ans.loc.lat, ans.loc.lng) THEN None
    ELSE [name |-> strip(split_first(raw_address)),
          address |-> ans.formatted_address,
          lat |-> ans.loc.lat, lng |-> ans.loc.lng, visible |-> TRUE]

\* Lines 101-137: every exception is caught and turned into None; the
\* first result is returned whatever validate_dc_coordinates says.
geocode_address_fallback(ans, raw_address) ==
    IF ans.geocode = "raise" THEN None
    ELSE IF ans.geocode = "empty" THEN None
    ELSE [name |-> strip(split_first(raw_address)),
          address |-> ans.formatted_address,
          lat |-> ans.loc.lat, lng |-> ans.loc.lng, visible |-> TRUE]

\* Line 241: result['id'] = next_id
with_id(result, id) ==
    [id |-> id, name |-> result.name, address |-> result.address,
     lat |-> result.lat, lng |-> result.lng, visible |-> result.visible]

\* initial_addresses numbering from the number of records read instead of
\* from their greatest id.
initial_addresses_FromCount(append, file) ==
    LET existing == IF ~append THEN <<<<>>, 1>>
                    ELSE read_existing_addresses(file)
    IN <<existing[1], Len(existing[1]) + 1>>

\* initial_addresses leaving one id unused above the greatest id read.
initial_addresses_Gap(append, file) ==
    LET existing == IF ~append THEN <<<<>>, 1>>
                    ELSE read_existing_addresses(file)
    IN <<existing[1], existing[2] + 2>>

\* Lines 229-230: the addresses and the first id of a run.
initial_addresses(append, file) ==
    LET existing == IF ~append THEN <<<<>>, 1>>
                    ELSE read_existing_addresses(file)
    IN <<existing[1], existing[2] + 1>>

\* Lines 205-226: how the set-up of a run ends.
setup(input, raw, key) ==
    IF ~input.exists THEN "exit"
    ELSE IF raw = <<>> THEN "return"
    ELSE IF ~key THEN "exit"
    ELSE "enter"

\* ----------------------------------------------------------------- state
VARIABLES
    csvFile,        \* addresses.csv: Absent or its rows
    failedFile,     \* addresses_failed.txt: Absent or its lines
    input_exists,   \* the input file of the current run exists
    apiKey,         \* GOOGLE_MAPS_API_KEY is set
    append_mode,
    pc,             \* position of the run
    exitCode,       \* -1 while the run has not ended, else the exit code
    raw_addresses,
    addresses,
    next_id,
    successful,
    failed,
    i,              \* 1-based position of the loop of lines 236-248
    status,         \* per entry: START, TRY_PLACE, TRY_GEOCODE, DONE, FAILED
    placeCalls,     \* per entry: calls of find_place_by_name
    geocodeCalls,   \* per entry: calls of geocode_address_fallback
    via,            \* per entry: the resolver that produced its record
    idOf,           \* per entry: the id it was given, 0 for none
    lastCall,       \* the resolver call that returned last, and how
    loaded,         \* number of records read by read_existing_addresses
    start_id,       \* next_id when the loop is entered
    csv0,           \* addresses.csv as it was when the run started
    failed0,        \* addresses_failed.txt as it was when the run started
    csvWrites,      \* writes of addresses.csv in this run
    failedWrites,   \* writes or deletions of addresses_failed.txt in this run
    runs,           \* number of pipeline runs started
    issued,         \* ids given to records: by the pipeline, by the store
    storeResp,      \* the record store's last request and its response
    ops,            \* number of requests the record store has handled
    probe           \* the last call of validate_dc_coordinates on its own

vars ==
    <<csvFile, failedFile, input_exists, apiKey, append_mode, pc, exitCode,
      raw_addresses, addresses, next_id, successful, failed, i, status,
      placeCalls, geocodeCalls, via, idOf, lastCall, loaded, start_id, csv0,
      failed0, csvWrites, failedWrites, runs, issued, storeResp, ops, probe>>

disk == <<csvFile, failedFile, csvWrites, failedWrites>>
runInputs == <<input_exists, apiKey, append_mode, raw_addresses, csv0,
               failed0, loaded, start_id, runs, storeResp, ops, probe>>

NoneIssued == [pipeline |-> {}, store |-> {}]

NoRequest ==
    [op |-> "none", id |-> 0, fields |-> {}, status |-> 0, record |-> <<>>]

NoProbe == [lat |-> 0, lng |-> 0, valid |-> FALSE, called |-> FALSE]

NoCall ==
    [entry |-> 0, resolver |-> "none", raised |-> FALSE, found |-> FALSE,
     loc |-> InBox, absent |-> FALSE]

RECURSIVE SeqsUpTo(_, _)
SeqsUpTo(S, n) ==
    IF n = 0 THEN {<<>>}
    ELSE LET shorter == SeqsUpTo(S, n - 1)
         IN shorter \cup { Append(s, x) : s \in shorter, x \in S }

InputFiles ==
    {Absent} \cup { File(ls) : ls \in SeqsUpTo(InputLines, MaxLines) }

\* What is on disk when a run starts.  A dataset left by earlier pipeline
\* runs and record-store requests has rows with increasing ids, possibly
\* with gaps, visible either way and any location; an edit by hand can
\* leave one row whose id cell is no number, anywhere among the rows.
PriorRecord(id) ==
    [id |-> id, name |-> <<"p">>, address |-> <<"p", "a">>,
     lat |-> IF id % 3 = 0 THEN OutOfBox.lat ELSE InBox.lat,
     lng |-> InBox.lng, visible |-> id % 2 = 1]

BadRow ==
    [id |-> <<"x">>, name |-> <<"p">>, address |-> <<"p", "a">>,
     lat |-> format_int(InBox.lat), lng |-> format_int(InBox.lng),
     visible |-> "True"]

RECURSIVE RowsOfIds(_, _)
RowsOfIds(ids, from) ==
    IF from > MaxPriorId THEN <<>>
    ELSE (IF from \in ids THEN <<format_row(PriorRecord(from))>> ELSE <<>>)
             \o RowsOfIds(ids, from + 1)

InsertAt(rows, p, r) ==
    SubSeq(rows, 1, p) \o <<r>> \o SubSeq(rows, p + 1, Len(rows))

GoodDatasets == { RowsOfIds(ids, 1) : ids \in SUBSET (1..MaxPriorId) }

PriorDatasets ==
    {Absent}
        \cup { File(rows) : rows \in GoodDatasets }
        \cup { File(InsertAt(RowsOfIds(1..MaxPriorId, 1), p, BadRow)) :
                   p \in 0..MaxPriorId }

PriorFailed == {Absent, File(<<<<"c">>>>)}

N == Len(raw_addresses)

Init ==
    /\ csvFile \in PriorDatasets
    /\ failedFile \in PriorFailed
    /\ input_exists = FALSE
    /\ apiKey = FALSE
    /\ append_mode = FALSE
    /\ pc = "idle"
    /\ exitCode = 0 - 1
    /\ raw_addresses = <<>>
    /\ addresses = <<>>
    /\ next_id = 0
    /\ successful = 0
    /\ failed = <<>>
    /\ i = 0
    /\ status = <<>>
    /\ placeCalls = <<>>
    /\ geocodeCalls = <<>>
    /\ via = <<>>
    /\ idOf = <<>>
    /\ lastCall = NoCall
    /\ loaded = 0
    /\ start_id = 0
    /\ csv0 = csvFile
    /\ failed0 = failedFile
    /\ csvWrites = 0
    /\ failedWrites = 0
    /\ runs = 0
    /\ issued = NoneIssued
    /\ storeResp = NoRequest
    /\ ops = 0
    /\ probe = NoProbe

\* --------------------------------------------------------------- actions
\* Lines 198-234: a run starts.  It exits 1 on a missing input file,
\* returns when the file has no usable line, exits 1 on a missing
\* credential, and otherwise loads the dataset and enters the loop.
StartRun(input, key, append) ==
    /\ pc = "idle"
    /\ input_exists' = input.exists
    /\ apiKey' = key
    /\ append_mode' = append
    /\ LET raw == IF input.exists THEN read_raw_addresses(input.rows)
                  ELSE <<>>
           how == setup(input, raw, key)
           initial == initial_addresses(append, csvFile)
       IN /\ raw_addresses' = raw
          /\ status' = [k \in 1..Len(raw) |-> "START"]
          /\ placeCalls' = [k \in 1..Len(raw) |-> 0]
          /\ geocodeCalls' = [k \in 1..Len(raw) |-> 0]
          /\ via' = [k \in 1..Len(raw) |-> "none"]
          /\ idOf' = [k \in 1..Len(raw) |-> 0]
          /\ IF how = "enter"
             THEN /\ addresses' = initial[1]
                  /\ next_id' = initial[2]
                  /\ loaded' = Len(initial[1])
                  /\ start_id' = initial[2]
                  /\ i' = 1
                  /\ pc' = "loop"
                  /\ UNCHANGED exitCode
             ELSE /\ pc' = IF how = "return" THEN "finished" ELSE "exited"
                  /\ exitCode' = IF how = "return" THEN 0 ELSE 1
                  /\ UNCHANGED <<addresses, next_id, loaded, start_id, i>>
    /\ csv0' = csvFile
    /\ failed0' = failedFile
    /\ runs' = runs + 1
    /\ UNCHANGED <<disk, successful, failed, lastCall, issued, storeResp, ops,
                   probe>>

\* BeginEntry trying the geocode fallback before the venue search.
BeginEntry_GeocodeFirst ==
    /\ pc = "loop"
    /\ i <= N
    /\ status[i] = "START"
    /\ status' = [status EXCEPT ![i] = "TRY_GEOCODE"]
    /\ geocodeCalls' = [geocodeCalls EXCEPT ![i] = @ + 1]
    /\ UNCHANGED <<disk, runInputs, pc, exitCode, addresses, next_id,
                   successful, failed, i, placeCalls, via, idOf, lastCall,
                   issued>>

\* Lines 236-238 and 145-148: the loop takes the next entry and calls the
\* venue search.
BeginEntry ==
    /\ pc = "loop"
    /\ i <= N
    /\ status[i] = "START"
    /\ status' = [status EXCEPT ![i] = "TRY_PLACE"]
    /\ placeCalls' = [placeCalls EXCEPT ![i] = @ + 1]
    /\ UNCHANGED <<disk, runInputs, pc, exitCode, addresses, next_id,
                   successful, failed, i, geocodeCalls, via, idOf, lastCall,
                   issued>>

\* Resolved without the increment of line 243.
Resolved_NoIncrement(result, resolver) ==
    /\ addresses' = Append(addresses, with_id(result, next_id))
    /\ next_id' = next_id
    /\ successful' = successful + 1
    /\ status' = [status EXCEPT ![i] = "DONE"]
    /\ via' = [via EXCEPT ![i] = resolver]
    /\ idOf' = [idOf EXCEPT ![i] = next_id]
    /\ issued' = [issued EXCEPT !.pipeline = @ \cup {next_id}]
    /\ i' = i + 1
    /\ UNCHANGED <<disk, failed, pc, exitCode>>

\* Resolved flushing the dataset after every resolved entry.
Resolved_Flush(result, resolver) ==
    /\ addresses' = Append(addresses, with_id(result, next_id))
    /\ next_id' = next_id + 1
    /\ successful' = successful + 1
    /\ status' = [status EXCEPT ![i] = "DONE"]
    /\ via' = [via EXCEPT ![i] = resolver]
    /\ idOf' = [idOf EXCEPT ![i] = next_id]
    /\ issued' = [issued EXCEPT !.pipeline = @ \cup {next_id}]
    /\ i' = i + 1
    /\ csvFile' = File(write_addresses_csv(addresses'))
    /\ csvWrites' = csvWrites + 1
    /\ UNCHANGED <<failedFile, failedWrites, failed, pc, exitCode>>

\* Lines 240-245: a resolved entry gets the next id and joins addresses.
Resolved(result, resolver) ==
    /\ addresses' = Append(addresses, with_id(result, next_id))
    /\ next_id' = next_id + 1
    /\ successful' = successful + 1
    /\ status' = [status EXCEPT ![i] = "DONE"]
    /\ via' = [via EXCEPT ![i] = resolver]
    /\ idOf' = [idOf EXCEPT ![i] = next_id]
    /\ issued' = [issued EXCEPT !.pipeline = @ \cup {next_id}]
    /\ i' = i + 1
    /\ UNCHANGED <<disk, failed, pc, exitCode>>

\* NotResolved without the append of line 247.
NotResolved_Forgotten ==
    /\ failed' = failed
    /\ status' = [status EXCEPT ![i] = "FAILED"]
    /\ i' = i + 1
    /\ UNCHANGED <<disk, addresses, next_id, successful, via, idOf, pc,
                   exitCode, issued>>

\* Lines 246-248: an entry neither resolver resolved joins the failed list.
NotResolved ==
    /\ failed' = Append(failed, raw_addresses[i])
    /\ status' = [status EXCEPT ![i] = "FAILED"]
    /\ i' = i + 1
    /\ UNCHANGED <<disk, addresses, next_id, successful, via, idOf, pc,
                   exitCode, issued>>

\* No handler surrounds the calls of lines 238, 148 and 154: an exception
\* that escaped a resolver would end the process with a traceback.
Uncaught ==
    /\ pc' = "exited"
    /\ exitCode' = 1
    /\ UNCHANGED <<disk, addresses, next_id, successful, failed, status, via,
                   idOf, i, issued>>

\* Lines 148-154: find_place_by_name returns; its result ends the entry,
\* its absence calls the geocode fallback.
PlaceReturns(ans) ==
    /\ pc = "loop"
    /\ i <= N
    /\ status[i] = "TRY_PLACE"
    /\ LET result == find_place_by_name(ans, raw_addresses[i])
       IN /\ lastCall' = [entry |-> i, resolver |-> "place",
                          raised |-> "raise" \in {ans.places, ans.place},
                          found |-> ans.places = "OK" /\ ans.place = "OK",
                          loc |-> ans.loc,
                          absent |-> result = None]
          /\ IF result = Raised
             THEN Uncaught /\ UNCHANGED geocodeCalls
             ELSE IF result # None
             THEN Resolved(result, "place") /\ UNCHANGED geocodeCalls
             ELSE /\ status' = [status EXCEPT ![i] = "TRY_GEOCODE"]
                  /\ geocodeCalls' = [geocodeCalls EXCEPT ![i] = @ + 1]
                  /\ UNCHANGED <<disk, addresses, next_id, successful, failed,
                                 i, via, idOf, pc, exitCode, issued>>
    /\ UNCHANGED <<runInputs, placeCalls>>

\* Lines 154-159 and 240-248: geocode_address_fallback returns; its result
\* ends the entry, its absence puts the entry on the failed list.
GeocodeReturns(ans) ==
    /\ pc = "loop"
    /\ i <= N
    /\ status[i] = "TRY_GEOCODE"
    /\ LET result == geocode_address_fallback(ans, raw_addresses[i])
       IN /\ lastCall' = [entry |-> i, resolver |-> "geocode",
                          raised |-> ans.geocode = "raise",
                          found |-> ans.geocode = "results",
                          loc |-> ans.loc,
                          absent |-> result = None]
          /\ IF result = Raised THEN Uncaught
             ELSE IF result # None THEN Resolved(result, "geocode")
             ELSE NotResolved
    /\ UNCHANGED <<runInputs, placeCalls, geocodeCalls>>

\* Lines 250-253: after the loop the dataset is written, when there is
\* at least one address to write.
WriteDataset ==
    /\ pc = "loop"
    /\ i > N
    /\ IF addresses # <<>>
       THEN /\ csvFile' = File(write_addresses_csv(addresses))
            /\ csvWrites' = csvWrites + 1
       ELSE UNCHANGED <<csvFile, csvWrites>>
    /\ pc' = "write_failed"
    /\ UNCHANGED <<failedFile, failedWrites, runInputs, exitCode, addresses,
                   next_id, successful, failed, i, status, placeCalls,
                   geocodeCalls, via, idOf, lastCall, issued>>

\* Lines 255-270: the failed list is written, or a failure file left by an
\* earlier run is removed; the run ends with exit code 0.
WriteFailed ==
    /\ pc = "write_failed"
    /\ IF failed # <<>>
       THEN /\ failedFile' = File(failed)
            /\ failedWrites' = failedWrites + 1
       ELSE IF failedFile.exists
       THEN /\ failedFile' = Absent
            /\ failedWrites' = failedWrites + 1
       ELSE UNCHANGED <<failedFile, failedWrites>>
    /\ pc' = "finished"
    /\ exitCode' = 0
    /\ UNCHANGED <<csvFile, csvWrites, runInputs, addresses, next_id,
                   successful, failed, i, status, placeCalls, geocodeCalls,
                   via, idOf, lastCall, issued>>

Next ==
    \/ \E input \in InputFiles, key \in BOOLEAN, append \in BOOLEAN :
           StartRun(input, key, append)
    \/ BeginEntry
    \/ \E ans \in PlaceAnswers : PlaceReturns(ans)
    \/ \E ans \in GeocodeAnswers : GeocodeReturns(ans)
    \/ WriteDataset
    \/ WriteFailed

Spec == Init /\ [][Next]_vars

\* ------------------------------------------- the bounds check on its own
\* Coordinates in tenths of a degree around and on the edges of the box,
\* and the far point 40.0.
LatGrid == (DC_LAT_MIN - 2)..(DC_LAT_MAX + 2) \cup {OutOfBox.lat}
LngGrid == (DC_LNG_MIN - 2)..(DC_LNG_MAX + 2)

\* Everything of a pipeline run: its inputs, its position and its counters.
runState ==
    <<input_exists, apiKey, append_mode, pc, exitCode, raw_addresses,
      addresses, next_id, successful, failed, i, status, placeCalls,
      geocodeCalls, via, idOf, lastCall, loaded, start_id, csv0, failed0,
      csvWrites, failedWrites, runs>>

\* Lines 34-39: one call of validate_dc_coordinates and what it returns.
Validate(lat, lng) ==
    /\ probe' = [lat |-> lat, lng |-> lng,
                 valid |-> validate_dc_coordinates(lat, lng),
                 called |-> TRUE]
    /\ UNCHANGED <<runState, csvFile, failedFile, issued, storeResp, ops>>

BoundsInit == Init /\ csvFile = Absent /\ failedFile = Absent

BoundsNext == \E lat \in LatGrid, lng \in LngGrid : Validate(lat, lng)

BoundsSpec == BoundsInit /\ [][BoundsNext]_vars

\* ---------------------------------------------------------- record store
\* The request handlers of main.py; each runs from its read of the dataset
\* to its write without awaiting, so each is one step.

\* main.py lines 60-82: all rows, or none when any row fails to convert.
read_addresses(file) ==
    IF ~file.exists THEN <<>>
    ELSE IF \A k \in 1..Len(file.rows) : row_readable(file.rows[k])
    THEN [k \in 1..Len(file.rows) |-> parse_row(file.rows[k])]
    ELSE <<>>

\* main.py lines 85-100.
write_addresses(addrs) ==
    [k \in 1..Len(addrs) |-> format_row(addrs[k])]

\* max() of a non-empty collection of ids.
max_of(S) == CHOOSE m \in S : \A x \in S : x <= m

\* get_next_id without the + 1 of line 107.
get_next_id_NoIncrement(addrs) ==
    IF addrs = <<>> THEN 1
    ELSE max_of({ addrs[k].id : k \in 1..Len(addrs) })

\* main.py lines 103-107.
get_next_id(addrs) ==
    IF addrs = <<>> THEN 1
    ELSE max_of({ addrs[k].id : k \in 1..Len(addrs) }) + 1

\* The bodies of create requests (AddressCreate, lines 38-43).
CreateRequests ==
    { [name |-> <<"s">>, address |-> <<"s", "a">>, lat |-> l.lat,
       lng |-> l.lng] : l \in {InBox} }

\* The bodies of update requests (AddressUpdate, lines 46-52): fields holds
\* the names of the fields that are not None.
UpdateRequests ==
    { [fields |-> {"visible"}, name |-> <<>>, address |-> <<>>,
       lat |-> 0, lng |-> 0, visible |-> FALSE],
      [fields |-> {"name", "lat"}, name |-> <<"n">>, address |-> <<>>,
       lat |-> OutOfBox.lat, lng |-> 0, visible |-> FALSE] }

\* apply_update assigning every field of the request, None or not.
apply_update_All(addr, update) ==
    [id |-> addr.id, name |-> update.name, address |-> update.address,
     lat |-> update.lat, lng |-> update.lng, visible |-> update.visible]

\* main.py lines 181-191: only the provided fields are assigned.
apply_update(addr, update) ==
    [id |-> addr.id,
     name |-> IF "name" \in update.fields THEN update.name ELSE addr.name,
     address |-> IF "address" \in update.fields THEN update.address
                 ELSE addr.address,
     lat |-> IF "lat" \in update.fields THEN update.lat ELSE addr.lat,
     lng |-> IF "lng" \in update.fields THEN update.lng ELSE addr.lng,
     visible |-> IF "visible" \in update.fields THEN update.visible
                 ELSE addr.visible]

\* main.py lines 140-158: POST /api/addresses.
create_address(address) ==
    LET addresses_ == read_addresses(csvFile)
        new_id == get_next_id(addresses_)
        new_address == [id |-> new_id, name |-> address.name,
                        address |-> address.address, lat |-> address.lat,
                        lng |-> address.lng, visible |-> TRUE]
    IN /\ csvFile' = File(write_addresses(Append(addresses_, new_address)))
       /\ issued' = [issued EXCEPT !.store = @ \cup {new_id}]
       /\ storeResp' = [op |-> "create", id |-> new_id, fields |-> {},
                        status |-> 200, record |-> <<new_address>>]
       /\ ops' = ops + 1
       /\ UNCHANGED <<runState, failedFile, probe>>

\* main.py lines 161-171: DELETE /api/addresses/{address_id}.
delete_address(address_id) ==
    LET addresses_ == read_addresses(csvFile)
        updated_addresses == SelectSeq(addresses_,
                                       LAMBDA a : a.id # address_id)
    IN /\ IF Len(updated_addresses) = Len(addresses_)
          THEN /\ storeResp' = [op |-> "delete", id |-> address_id,
                                fields |-> {}, status |-> 404,
                                record |-> <<>>]
               /\ UNCHANGED csvFile
          ELSE /\ csvFile' = File(write_addresses(updated_addresses))
               /\ storeResp' = [op |-> "delete", id |-> address_id,
                                fields |-> {}, status |-> 200,
                                record |-> <<>>]
       /\ ops' = ops + 1
       /\ UNCHANGED <<runState, failedFile, issued, probe>>

\* main.py lines 174-196: PATCH /api/addresses/{address_id}.
update_address(address_id, update) ==
    LET addresses_ == read_addresses(csvFile)
        hits == { k \in 1..Len(addresses_) : addresses_[k].id = address_id }
    IN /\ IF hits = {}
          THEN /\ storeResp' = [op |-> "update", id |-> address_id,
                                fields |-> update.fields, status |-> 404,
                                record |-> <<>>]
               /\ UNCHANGED csvFile
          ELSE LET first == CHOOSE k \in hits : \A j \in hits : k <= j
                   addr == apply_update(addresses_[first], update)
               IN /\ csvFile' = File(write_addresses(
                                         [addresses_ EXCEPT ![first] = addr]))
                  /\ storeResp' = [op |-> "update", id |-> address_id,
                                   fields |-> update.fields, status |-> 200,
                                   record |-> <<addr>>]
       /\ ops' = ops + 1
       /\ UNCHANGED <<runState, failedFile, issued, probe>>


\* Lines 273-292 (main): the process of a run has ended; the next run is
\* a new process and starts with nothing of the last one but the disk.
EndProcess ==
    /\ pc \in {"finished", "exited"}
    /\ pc' = "idle"
    /\ input_exists' = FALSE
    /\ apiKey' = FALSE
    /\ append_mode' = FALSE
    /\ exitCode' = 0 - 1
    /\ raw_addresses' = <<>>
    /\ addresses' = <<>>
    /\ next_id' = 0
    /\ successful' = 0
    /\ failed' = <<>>
    /\ i' = 0
    /\ status' = <<>>
    /\ placeCalls' = <<>>
    /\ geocodeCalls' = <<>>
    /\ via' = <<>>
    /\ idOf' = <<>>
    /\ lastCall' = NoCall
    /\ loaded' = 0
    /\ start_id' = 0
    /\ csv0' = csvFile
    /\ failed0' = failedFile
    /\ csvWrites' = 0
    /\ failedWrites' = 0
    /\ UNCHANGED <<csvFile, failedFile, runs, issued, storeResp, ops, probe>>

\* -------------------------------------- operations executed one at a time
\* Pipeline runs and store requests follow one another: a store request is
\* handled only between runs.  The dataset starts absent or empty.
StoreInit ==
    /\ Init
    /\ csvFile \in {Absent, File(<<>>)}
    /\ failedFile = Absent

\* The input file of the runs: one usable line after a comment.
StoreInputFiles == { File(<<<<" ", "#", "x">>, <<"a", " ", ",", "b">>>>) }

\* What the resolvers answer in these runs: the venue search finds a venue
\* in the box or nothing, the geocode fallback a result or nothing.
StorePlaceAnswers ==
    { ans \in PlaceAnswers :
          \/ ans.places = "ZERO_RESULTS"
          \/ ans.place = "OK" /\ ans.loc = InBox }

StoreGeocodeAnswers ==
    { ans \in GeocodeAnswers :
          \/ ans.geocode = "empty"
          \/ ans.geocode = "results" /\ ans.loc = OutOfBox }

\* The ids store requests name: those the dataset holds and the one above.
RequestIds ==
    LET held == { a.id : a \in { read_addresses(csvFile)[k] :
                                     k \in 1..Len(read_addresses(csvFile)) } }
    IN held \cup {get_next_id(read_addresses(csvFile))}

MoreOps == ops + runs < MaxOps

PipelineSteps ==
    \/ BeginEntry
    \/ \E ans \in StorePlaceAnswers : PlaceReturns(ans)
    \/ \E ans \in StoreGeocodeAnswers : GeocodeReturns(ans)
    \/ WriteDataset
    \/ WriteFailed

SeqNext ==
    \/ /\ MoreOps
       /\ \E input \in StoreInputFiles, append \in BOOLEAN :
              StartRun(input, TRUE, append)
    \/ PipelineSteps
    \/ EndProcess
    \/ /\ pc = "idle" /\ MoreOps
       /\ \E body \in CreateRequests : create_address(body)
    \/ /\ pc = "idle" /\ MoreOps
       /\ \E id \in RequestIds : delete_address(id)
    \/ /\ pc = "idle" /\ MoreOps
       /\ \E id \in RequestIds, update \in UpdateRequests :
              update_address(id, update)

SeqSpec == StoreInit /\ [][SeqNext]_vars

\* Append-mode runs, creates and deletes only.
AppendNext ==
    \/ /\ MoreOps
       /\ \E input \in StoreInputFiles : StartRun(input, TRUE, TRUE)
    \/ PipelineSteps
    \/ EndProcess
    \/ /\ pc = "idle" /\ MoreOps
       /\ \E body \in CreateRequests : create_address(body)
    \/ /\ pc = "idle" /\ MoreOps
       /\ \E id \in RequestIds : delete_address(id)

AppendSpec == StoreInit /\ [][AppendNext]_vars

\* ------------------------------------- a create request during one run
\* The store and the pipeline are separate processes on one file: nothing
\* keeps a create request from being handled while an append-mode run is
\* between its read of the dataset and its write.
ConcInit ==
    /\ Init
    /\ csvFile \in {Absent} \cup { File(rows) : rows \in GoodDatasets }
    /\ failedFile = Absent

ConcNext ==
    \/ \E input \in StoreInputFiles : StartRun(input, TRUE, TRUE)
    \/ PipelineSteps
    \/ /\ ops < MaxOps
       /\ \E body \in CreateRequests : create_address(body)

ConcSpec == ConcInit /\ [][ConcNext]_vars

\* ---------------------------------------------------------------- claims
DoneEntries == { k \in 1..N : status[k] = "DONE" }
FailedEntries == { k \in 1..N : status[k] = "FAILED" }
AllEntriesEnded == DoneEntries \cup FailedEntries = 1..N

\* The records this run added, in the order it added them.
NewRecords == SubSeq(addresses, loaded + 1, Len(addresses))

\* The position among the new records of the record of a DONE entry.
Rank(k) == Cardinality({ j \in DoneEntries : j <= k })

FileRows(file) == IF file.exists THEN file.rows ELSE <<>>

Readable(file) ==
    file.exists /\ \A k \in 1..Len(file.rows) : row_readable(file.rows[k])

GreatestOf(S) == IF S = {} THEN 0 ELSE CHOOSE m \in S : \A x \in S : x <= m

\* C1: every usable input line ends either resolved or failed, never both
\* and never neither: while the loop runs the records added plus the failed
\* entries count the lines handled so far, and after the loop they count
\* all n lines.
C1_ResolvedPlusFailedIsN ==
    pc \in {"loop", "write_failed", "finished"} =>
        /\ Cardinality(DoneEntries) = Len(addresses) - loaded
        /\ Cardinality(DoneEntries) = successful
        /\ Cardinality(FailedEntries) = Len(failed)
        /\ DoneEntries \cap FailedEntries = {}
        /\ pc = "loop" => (Len(addresses) - loaded) + Len(failed) = i - 1
        /\ pc # "loop" =>
               /\ AllEntriesEnded
               /\ (Len(addresses) - loaded) + Len(failed) = N

C1_Witness ==
    /\ pc = "finished"
    /\ N = 2
    /\ status[1] = "FAILED"
    /\ status[2] = "DONE"
    /\ Len(failed) = 1

\* C2: the ids of a run are start_id, start_id + 1, ... in input order over
\* the resolved entries: a failed entry has no id, no two entries share an
\* id, and a later resolved entry has a greater id than an earlier one.
C2_IdsConsecutiveInInputOrder ==
    /\ \A k \in FailedEntries : idOf[k] = 0
    /\ \A k \in DoneEntries :
           /\ idOf[k] = start_id + Rank(k) - 1
           /\ NewRecords[Rank(k)].id = idOf[k]
    /\ \A j, k \in DoneEntries : j < k => idOf[j] < idOf[k]
    /\ \A r \in 1..Len(NewRecords) : NewRecords[r].id = start_id + r - 1

C2_Witness ==
    /\ pc = "finished"
    /\ N = 2
    /\ status[1] = "DONE"
    /\ status[2] = "DONE"
    /\ idOf[2] = idOf[1] + 1

\* C3: an entry moves START -> TRY_PLACE -> DONE, or
\* START -> TRY_PLACE -> TRY_GEOCODE -> DONE or FAILED, and in no other
\* way: the venue search is called first and once, the geocode fallback at
\* most once and only after the venue search returned None, and an entry
\* fails only after the geocode fallback returned None too.
C3_Moves(k) ==
    \/ status'[k] = status[k]
    \/ status[k] = "START" /\ status'[k] = "TRY_PLACE"
    \/ /\ status[k] = "TRY_PLACE"
       /\ \/ /\ status'[k] = "DONE"
             /\ lastCall'.entry = k
             /\ lastCall'.resolver = "place"
             /\ ~lastCall'.absent
          \/ /\ status'[k] = "TRY_GEOCODE"
             /\ lastCall'.entry = k
             /\ lastCall'.resolver = "place"
             /\ lastCall'.absent
    \/ /\ status[k] = "TRY_GEOCODE"
       /\ \/ /\ status'[k] = "DONE"
             /\ lastCall'.entry = k
             /\ lastCall'.resolver = "geocode"
             /\ ~lastCall'.absent
          \/ /\ status'[k] = "FAILED"
             /\ lastCall'.entry = k
             /\ lastCall'.resolver = "geocode"
             /\ lastCall'.absent

C3_Calls ==
    \A k \in 1..N :
        /\ placeCalls[k] = IF status[k] = "START" THEN 0 ELSE 1
        /\ geocodeCalls[k] \in {0, 1}
        /\ status[k] \in {"START", "TRY_PLACE"} => geocodeCalls[k] = 0
        /\ status[k] \in {"TRY_GEOCODE", "FAILED"} => geocodeCalls[k] = 1
        /\ status[k] = "DONE" =>
               geocodeCalls[k] = IF via[k] = "place" THEN 0 ELSE 1

C3_EntryStateMachine ==
    /\ [] C3_Calls
    /\ [][\A k \in 1..N : C3_Moves(k)]_vars

C3_Witness ==
    /\ pc = "finished"
    /\ N = 2
    /\ status[1] = "DONE" /\ via[1] = "place"
    /\ status[2] = "FAILED"
    /\ geocodeCalls = <<0, 1>>

\* C4: after an overwrite run over its entries has ended, addresses.csv
\* holds the records this run resolved and nothing that was there before,
\* also when every entry failed.
C4_OverwriteLeavesOnlyThisRun ==
    (pc = "finished" /\ ~append_mode /\ N > 0) =>
        FileRows(csvFile) = write_addresses_csv(NewRecords)

\* C5: an append run on a dataset all of whose rows can be read writes the
\* rows that were there plus one per resolved entry, and every new id is
\* above the greatest id that was there.
C5_AppendSizeAndIdsAboveMax ==
    (pc = "finished" /\ append_mode /\ Readable(csv0)) =>
        LET old == Len(csv0.rows)
            greatest ==
                GreatestOf({ parse_int(csv0.rows[k].id) : k \in 1..old })
        IN /\ csvFile.exists
           /\ Len(csvFile.rows) = old + successful
           /\ \A k \in (old + 1)..Len(csvFile.rows) :
                  parse_int(csvFile.rows[k].id) > greatest

C5_Witness ==
    /\ pc = "finished"
    /\ append_mode
    /\ Readable(csv0)
    /\ Len(csv0.rows) = 1
    /\ parse_int(csv0.rows[1].id) = 2
    /\ successful = 2
    /\ Len(csvFile.rows) = 3

\* C6: a run that ends with no failed entry leaves no failure file behind,
\* when one was there before the run.
C6_StaleFailureFileRemoved ==
    (pc = "finished" /\ failed = <<>> /\ failed0.exists) =>
        ~failedFile.exists

\* C7: the two output files stay as they were until every entry has ended,
\* each is written at most once in a run, and a run that exits on a
\* set-up error leaves both as they were.
C7_FilesWrittenOnceAfterLoop ==
    /\ csvWrites <= 1
    /\ failedWrites <= 1
    /\ pc \in {"idle", "loop", "exited"} =>
           /\ csvFile = csv0
           /\ failedFile = failed0
           /\ csvWrites = 0
           /\ failedWrites = 0
    /\ (csvFile # csv0 \/ csvWrites > 0) => AllEntriesEnded
    /\ (failedFile # failed0 \/ failedWrites > 0) => AllEntriesEnded

C7_Witness ==
    /\ pc = "finished"
    /\ N = 2
    /\ csvWrites = 1
    /\ failedWrites = 1
    /\ csvFile # csv0
    /\ failedFile # failed0

\* C8: a resolver call that met an exception returns None and nothing
\* more: after the venue search the geocode fallback is called for the same
\* entry, after the geocode fallback the entry is put on the failed list
\* and the loop goes on; the run exits only in its set-up, and a run that
\* has ended normally has ended every entry.
C8_Return ==
    (/\ pc = "loop"
     /\ lastCall' # lastCall
     /\ lastCall'.raised) =>
        /\ lastCall'.entry = i
        /\ lastCall'.absent
        /\ pc' = "loop"
        /\ exitCode' = exitCode
        /\ addresses' = addresses
        /\ lastCall'.resolver = "place" =>
               /\ status'[i] = "TRY_GEOCODE"
               /\ geocodeCalls'[i] = 1
               /\ i' = i
               /\ failed' = failed
        /\ lastCall'.resolver = "geocode" =>
               /\ status'[i] = "FAILED"
               /\ failed' = Append(failed, raw_addresses[i])
               /\ i' = i + 1

C8_ExceptionBecomesAbsent ==
    /\ [] (pc = "exited" => (lastCall = NoCall /\ i = 0))
    /\ [] (pc \in {"write_failed", "finished"} => AllEntriesEnded)
    /\ [][C8_Return]_vars

C8_Witness ==
    /\ N = 2
    /\ lastCall.raised
    /\ lastCall.resolver = "geocode"
    /\ lastCall.entry = 1
    /\ status[1] = "FAILED"
    /\ placeCalls[1] = 1
    /\ status[2] = "TRY_PLACE"

\* C9: a run without the credential, or without its input file, ends with
\* a non-zero exit code and has resolved no entry.
C9_SetupErrorExitsNonZero ==
    (pc \in {"finished", "exited"} /\ (~apiKey \/ ~input_exists)) =>
        /\ exitCode # 0
        /\ lastCall = NoCall
        /\ \A k \in 1..N : status[k] = "START"

\* C10: a record the venue search produced lies inside the box, so a
\* record of this run outside the box came from the geocode fallback; a
\* venue outside the box is dropped and the geocode fallback is called,
\* and the geocode fallback returns its first result wherever it lies.
C10_Records ==
    \A k \in DoneEntries :
        LET r == NewRecords[Rank(k)]
        IN /\ via[k] \in {"place", "geocode"}
           /\ via[k] = "place" => validate_dc_coordinates(r.lat, r.lng)
           /\ ~validate_dc_coordinates(r.lat, r.lng) => via[k] = "geocode"

C10_Return ==
    (pc = "loop" /\ lastCall' # lastCall /\ lastCall'.found) =>
        LET inside ==
                validate_dc_coordinates(lastCall'.loc.lat, lastCall'.loc.lng)
        IN /\ (lastCall'.resolver = "place" /\ ~inside) =>
                  /\ lastCall'.absent
                  /\ status'[i] = "TRY_GEOCODE"
                  /\ addresses' = addresses
           /\ lastCall'.resolver = "geocode" =>
                  /\ ~lastCall'.absent
                  /\ status'[i] = "DONE"
                  /\ Len(addresses') = Len(addresses) + 1
                  /\ addresses'[Len(addresses')].lat = lastCall'.loc.lat
                  /\ addresses'[Len(addresses')].lng = lastCall'.loc.lng

C10_OutOfBoxOnlyFromGeocode ==
    /\ [] C10_Records
    /\ [][C10_Return]_vars

C10_Witness ==
    /\ pc = "finished"
    /\ lastCall.resolver = "geocode"
    /\ lastCall.loc = OutOfBox
    /\ status[N] = "DONE"
    /\ via[N] = "geocode"
    /\ ~validate_dc_coordinates(addresses[Len(addresses)].lat,
                                addresses[Len(addresses)].lng)
    /\ csvFile.rows[Len(csvFile.rows)].lat = format_int(OutOfBox.lat)

\* The greatest id among the rows of a dataset all of whose rows can be
\* read, 0 when it has none.
GreatestIdOf(file) ==
    GreatestOf({ parse_int(file.rows[k].id) : k \in 1..Len(file.rows) })

\* The entry whose venue search returned last is waiting for the geocode
\* fallback, and that venue search had found a venue outside the box.
VenueOutOfBoxPending ==
    /\ pc = "loop"
    /\ i <= N
    /\ status[i] = "TRY_GEOCODE"
    /\ lastCall.entry = i
    /\ lastCall.resolver = "place"
    /\ lastCall.found
    /\ ~validate_dc_coordinates(lastCall.loc.lat, lastCall.loc.lng)

\* C11 as stated: every entry whose venue-search result fails bounds
\* validation ends up on the failed list.
C11_OutOfBoxVenueAlwaysFails ==
    [][(VenueOutOfBoxPending /\ status'[i] # status[i]) =>
           status'[i] = "FAILED"]_vars

\* C11 as amended: an entry is on the failed list exactly when both
\* resolvers returned None for it; an entry whose venue lies outside the box
\* goes to the geocode fallback like any other entry the venue search did
\* not resolve, and fails only when the fallback has no result or raises.
C11_FailedList ==
    /\ Len(failed) = Cardinality(FailedEntries)
    /\ \A k \in FailedEntries :
           /\ failed[Cardinality({ j \in FailedEntries : j <= k })]
                  = raw_addresses[k]
           /\ placeCalls[k] = 1
           /\ geocodeCalls[k] = 1
           /\ via[k] = "none"

C11_GeocodeDecides ==
    (pc = "loop" /\ i <= N /\ status[i] = "TRY_GEOCODE"
         /\ status'[i] # status[i]) =>
        /\ lastCall'.resolver = "geocode"
        /\ status'[i] = IF lastCall'.found THEN "DONE" ELSE "FAILED"
        /\ (status'[i] = "FAILED") = lastCall'.absent
        /\ failed' = IF lastCall'.found THEN failed
                     ELSE Append(failed, raw_addresses[i])

C11_FailedIffBothResolversAbsent ==
    /\ [] C11_FailedList
    /\ [][C11_GeocodeDecides]_vars

C11_Witness ==
    /\ N = 2
    /\ status[1] = "FAILED"
    /\ failed = <<raw_addresses[1]>>
    /\ i = 2
    /\ VenueOutOfBoxPending

\* C12 as stated: in an append run the first resolved entry gets the
\* greatest existing id plus 2.
C12_AppendStartsAtMaxPlusTwo ==
    (append_mode /\ Readable(csv0) /\ Len(csv0.rows) > 0
         /\ Len(NewRecords) > 0) =>
        NewRecords[1].id = GreatestIdOf(csv0) + 2

\* C12 as amended: in an append run on a dataset whose greatest id is
\* n, the r-th resolved entry gets the id n + r: the first one n + 1, with
\* no id left unused.
C12_AppendStartsAtMaxPlusOne ==
    (append_mode /\ Readable(csv0) /\ Len(csv0.rows) > 0
         /\ pc \in {"loop", "write_failed", "finished"} /\ N > 0) =>
        /\ start_id = GreatestIdOf(csv0) + 1
        /\ next_id = GreatestIdOf(csv0) + 1 + Len(NewRecords)
        /\ \A r \in 1..Len(NewRecords) :
               NewRecords[r].id = GreatestIdOf(csv0) + r

C12_Witness ==
    /\ pc = "finished"
    /\ append_mode
    /\ Readable(csv0)
    /\ Len(csv0.rows) = 2
    /\ GreatestIdOf(csv0) = 2
    /\ Len(NewRecords) = 2
    /\ NewRecords[1].id = 3
    /\ parse_int(csvFile.rows[3].id) = 3

\* The name the geocode fallback is to give for each usable line.
TextBeforeComma(raw) ==
    CASE raw = <<"a", " ", ",", "b">> -> <<"a">>
      [] raw = <<"c">> -> <<"c">>

\* C14: a record the venue search resolved has the name and the address
\* of the place details, not the input text; a record the geocode fallback
\* resolved has the input text before its first comma, trimmed, as name.
C14_NameFollowsResolver ==
    \A k \in DoneEntries :
        LET r == NewRecords[Rank(k)]
        IN /\ via[k] = "place" =>
                  /\ r.name = VenueName
                  /\ r.address = VenueAddress
                  /\ r.name # raw_addresses[k]
           /\ via[k] = "geocode" =>
                  /\ r.name = TextBeforeComma(raw_addresses[k])
                  /\ r.address = GeocodeAddress

C14_Witness ==
    /\ pc = "finished"
    /\ N = 2
    /\ raw_addresses[1] = <<"a", " ", ",", "b">>
    /\ via = <<"geocode", "place">>
    /\ csvFile.rows[Len(csvFile.rows) - 1].name = <<"a">>
    /\ csvFile.rows[Len(csvFile.rows)].name = <<"V">>

\* The greatest id among the addresses held, 0 when none is held.
GreatestHeld ==
    GreatestOf({ addresses[k].id : k \in 1..Len(addresses) })

\* C17: while a run is in its loop and after it, next_id is the greatest
\* id among the addresses held plus 1, and 1 when none is held.
C17_NextIdIsMaxPlusOne ==
    (pc \in {"loop", "write_failed"} \/ (pc = "finished" /\ N > 0)) =>
        next_id = IF addresses = <<>> THEN 1 ELSE GreatestHeld + 1

IsPrefix(s, t) == Len(s) <= Len(t) /\ SubSeq(t, 1, Len(s)) = s

\* C18: the dataset an append run leaves begins with every row that was
\* there before the run, in the same order and unchanged.
C18_AppendKeepsExistingRows ==
    (pc = "finished" /\ append_mode) =>
        IsPrefix(FileRows(csv0), FileRows(csvFile))

\* C13: a call of validate_dc_coordinates returns true exactly when
\* 38.5 <= lat <= 39.5 and -77.5 <= lng <= -76.5 (here in tenths of a
\* degree), the four edges included; it returns false for (40.0, -77.0)
\* and true for (38.9, -77.0).
C13_ValidIffInClosedBox ==
    probe.called =>
        /\ probe.valid <=> /\ 385 <= probe.lat /\ probe.lat <= 395
                           /\ 0 - 775 <= probe.lng /\ probe.lng <= 0 - 765
        /\ (probe.lat = 400 /\ probe.lng = 0 - 770) => ~probe.valid
        /\ (probe.lat = 389 /\ probe.lng = 0 - 770) => probe.valid

\* The corner (38.5, -76.5) of the box was checked and found inside.
C13_Witness ==
    probe.called /\ probe.lat = 385 /\ probe.lng = 0 - 765 /\ probe.valid

\* C15: from an absent or empty dataset, through any sequence of pipeline
\* runs in either mode and store creates, deletes and updates handled one
\* at a time, every row of the dataset reads back, every id is a positive
\* integer and no two records have the same id.
C15_IdsPositiveAndUnique ==
    LET rows == FileRows(csvFile)
    IN /\ \A k \in 1..Len(rows) :
              row_readable(rows[k]) /\ parse_int(rows[k].id) > 0
       /\ \A j, k \in 1..Len(rows) :
              rows[j].id = rows[k].id => j = k

\* A run and a create have both given ids, an update has then succeeded,
\* and the dataset holds at least two records.
C15_Witness ==
    /\ pc = "idle"
    /\ issued.pipeline # {}
    /\ issued.store # {}
    /\ storeResp.op = "update"
    /\ storeResp.status = 200
    /\ Len(FileRows(csvFile)) >= 2

\* C16: however a store create is interleaved with an append-mode run on
\* the same dataset, the id the store gives its new record is none of the
\* ids the run gives.
C16_StoreIdNotAPipelineId == issued.store \cap issued.pipeline = {}

\* A step in which the store creates a record, and one in which the
\* pipeline gives an id to a resolved entry.
CreateStep == ops' = ops + 1 /\ storeResp'.op = "create"
ResolveStep == successful' = successful + 1

\* C19: over append-mode runs and store creates and deletes on one
\* dataset, an id that was given to a record is not given again: neither
\* the store's create nor the pipeline gives an id that was given before.
C19_IdsNeverReused ==
    [][/\ CreateStep => storeResp'.id \notin issued.store \cup issued.pipeline
       /\ ResolveStep => next_id \notin issued.store \cup issued.pipeline]_vars

\* A step in which the store handles an update, and one in which an
\* append-mode run writes the dataset.
UpdateStep == ops' = ops + 1 /\ storeResp'.op = "update"
AppendWriteStep == append_mode /\ pc = "loop" /\ pc' = "write_failed"

AllFields == {"id", "name", "address", "lat", "lng", "visible"}

\* The records the dataset held before the step are still there, in
\* place, with the same values in the given fields.
Kept(fields) ==
    LET old == read_addresses(csvFile)
        new == read_addresses(csvFile')
    IN /\ Len(new) >= Len(old)
       /\ \A k \in 1..Len(old) : \A f \in fields : new[k][f] = old[k][f]

\* A record created in the step has visible = true: the record a resolved
\* entry adds to addresses, and the record a store create writes.
C20_CreatedVisible ==
    /\ ResolveStep => addresses'[Len(addresses')].visible
    /\ CreateStep =>
           LET new == read_addresses(csvFile')
           IN /\ storeResp'.record[1].visible
              /\ new[Len(new)] = storeResp'.record[1]

\* C20 as stated: records are created visible, and neither the write of an
\* append-mode run nor a store update changes id, name, address, lat or
\* lng of a record the dataset held.
C20_OnlyVisibleChanges ==
    [][/\ C20_CreatedVisible
       /\ (UpdateStep \/ AppendWriteStep) =>
              Kept(AllFields \ {"visible"})]_vars

\* C20, amended: records are created visible; the write of an append-mode
\* run changes no field of a record the dataset held; a store update
\* changes, in the record it names, only the fields its request provides
\* (never id), and no field of any other record.
C20_UpdateChangesOnlyProvidedFields ==
    [][/\ C20_CreatedVisible
       /\ AppendWriteStep => Kept(AllFields)
       /\ UpdateStep =>
              /\ "id" \notin storeResp'.fields
              /\ Kept(AllFields \ storeResp'.fields)
              /\ LET old == read_addresses(csvFile)
                     new == read_addresses(csvFile')
                 IN /\ Len(new) = Len(old)
                    /\ \A k \in 1..Len(old) :
                           old[k].id # storeResp'.id => new[k] = old[k]]_vars

\* An update that provided a name has succeeded on a record the pipeline
\* created, and the dataset holds another record as well.
C20_Witness ==
    /\ storeResp.op = "update"
    /\ storeResp.status = 200
    /\ "name" \in storeResp.fields
    /\ storeResp.id \in issued.pipeline
    /\ Len(FileRows(csvFile)) >= 2

====
